---- MODULE Spec2Model ----
(***************************************************************************)
(* Bulk load of the knowledge graph into the graph store:                   *)
(*   KnowledgeGraphImporter      (import_knowledge_graph.py,     "csv")     *)
(*   RTFKnowledgeGraphImporter   (import_knowledge_graph_from_rtf.py, "rtf")*)
(* Text is modelled by TLA+ strings, character for character.               *)
(***************************************************************************)
EXTENDS Integers, Sequences, FiniteSets, TLC

(***************************************************************************)
(* Python string primitives                                                 *)
(***************************************************************************)
\* s[:n]
Take(s, n) == SubSeq(s, 1, IF Len(s) < n THEN Len(s) ELSE n)

\* least index j >= i at which pat occurs in s, 0 when there is none
Find(s, pat, i) ==
    LET M == {j \in i..(Len(s) - Len(pat) + 1) : SubSeq(s, j, j + Len(pat) - 1) = pat}
    IN  IF M = {} THEN 0 ELSE CHOOSE j \in M : \A k \in M : j <= k

RECURSIVE ReplaceFrom(_, _, _, _)
ReplaceFrom(s, old, new, i) ==
    LET j == Find(s, old, i)
    IN  IF j = 0 THEN SubSeq(s, i, Len(s))
        ELSE SubSeq(s, i, j - 1) \o new \o ReplaceFrom(s, old, new, j + Len(old))

\* s.replace(old, new) for a non-empty old: leftmost non-overlapping
\* occurrences, the inserted text is not scanned again
StrReplace(s, old, new) == ReplaceFrom(s, old, new, 1)

RECURSIVE Join(_, _)
Join(items, sep) ==
    IF Len(items) = 0 THEN ""
    ELSE IF Len(items) = 1 THEN items[1]
    ELSE items[1] \o sep \o Join(Tail(items), sep)

Digit(d) == SubSeq("0123456789", d + 1, d + 1)

RECURSIVE NatStr(_)
NatStr(n) == IF n < 10 THEN Digit(n) ELSE NatStr(n \div 10) \o Digit(n % 10)

\* str(n) of an int
IntStr(n) == IF n < 0 THEN "-" \o NatStr(0 - n) ELSE NatStr(n)

(***************************************************************************)
(* Parameter values: a str, an int or a list of str                         *)
(***************************************************************************)
StrVal(s)      == [type |-> "str",  s |-> s,  n |-> 0, items |-> <<>>]
IntVal(n)      == [type |-> "int",  s |-> "", n |-> n, items |-> <<>>]
ListVal(items) == [type |-> "list", s |-> "", n |-> 0, items |-> items]

\* repr(s) of a str: single quotes unless s has a single and no double quote
ReprStr(s) ==
    LET q  == IF Find(s, "'", 1) # 0 /\ Find(s, "\"", 1) = 0 THEN "\"" ELSE "'"
        e1 == StrReplace(s, "\\", "\\\\")
        e2 == StrReplace(e1, q, "\\" \o q)
        e3 == StrReplace(e2, "\n", "\\n")
        e4 == StrReplace(e3, "\r", "\\r")
    IN  q \o e4 \o q

\* str(value) for a value that is not a str
PyStr(value) ==
    IF value.type = "int" THEN IntStr(value.n)
    ELSE IF value.type = "list"
         THEN "[" \o Join([i \in 1..Len(value.items) |-> ReprStr(value.items[i])], ", ") \o "]"
         ELSE value.s

\* a params argument: None, or a dict as the sequence of its items in
\* insertion order
NoParams       == [none |-> TRUE,  items |-> <<>>]
Params(items)  == [none |-> FALSE, items |-> items]

(***************************************************************************)
(* RTFKnowledgeGraphImporter.execute_cypher: substitution into the query    *)
(***************************************************************************)
\* sorted(params.items(), key=lambda x: len(x[0]), reverse=True): stable
RECURSIVE InsertByLen(_, _)
InsertByLen(sorted, item) ==
    IF sorted = <<>> THEN <<item>>
    ELSE IF Len(Head(sorted)[1]) >= Len(item[1])
         THEN <<Head(sorted)>> \o InsertByLen(Tail(sorted), item)
         ELSE <<item>> \o sorted

RECURSIVE SortFrom(_, _, _)
SortFrom(items, i, acc) ==
    IF i > Len(items) THEN acc ELSE SortFrom(items, i + 1, InsertByLen(acc, items[i]))

sorted_params(items) == SortFrom(items, 1, <<>>)

escaped_value(value) ==
    StrReplace(StrReplace(StrReplace(value, "\"", "\\\""), "\n", "\\n"), "\r", "\\r")

Substitute(query, key, value) ==
    IF value.type = "str"
    THEN StrReplace(query, "$" \o key, "\"" \o escaped_value(value.s) \o "\"")
    ELSE StrReplace(query, "$" \o key, PyStr(value))

\* the loop over sorted_params; a text that has become empty has nothing
\* left to replace
RECURSIVE SubstituteAll(_, _)
SubstituteAll(query, items) ==
    IF items = <<>> THEN query
    ELSE LET q == Substitute(query, Head(items)[1], Head(items)[2])
         IN  IF Len(q) = 0 THEN q ELSE SubstituteAll(q, Tail(items))

\* the text handed to GRAPH.QUERY by the RTF importer
RenderRTF(query, params) ==
    IF params.none THEN query ELSE SubstituteAll(query, sorted_params(params.items))

(***************************************************************************)
(* KnowledgeGraphImporter.execute_cypher: CYPHER parameter header           *)
(***************************************************************************)
formatted_param(key, value) ==
    IF value.type = "str" THEN key \o "=\"" \o value.s \o "\""
    ELSE IF value.type = "list" THEN key \o "=\"" \o Join(value.items, ",") \o "\""
    ELSE key \o "=" \o PyStr(value)

formatted_params(items) ==
    [i \in 1..Len(items) |-> formatted_param(items[i][1], items[i][2])]

\* the text handed to GRAPH.QUERY by the CSV importer
RenderCSV(query, params) ==
    IF params.none THEN query
    ELSE "CYPHER " \o Join(formatted_params(params.items), " ") \o " " \o query

query_with_params(v, query, params) ==
    IF v = "rtf" THEN RenderRTF(query, params) ELSE RenderCSV(query, params)

(***************************************************************************)
(* The five mutation templates of each importer, verbatim                   *)
(***************************************************************************)
\* import_knowledge_graph.py, lines 70-79
QueryCSV_business_segments ==
    "\n" \o
    "                CREATE (bs:BUSINESS_SEGMENT {\n" \o
    "                    segment_id: $segment_id,\n" \o
    "                    segment_name: $segment_name,\n" \o
    "                    description: $description,\n" \o
    "                    version: $version,\n" \o
    "                    node_type: $node_type,\n" \o
    "                    created_at: $created_at\n" \o
    "                })\n" \o
    "                "

\* import_knowledge_graph.py, lines 109-129
QueryCSV_task_templates ==
    "\n" \o
    "                CREATE (tt:TASK_TEMPLATE {\n" \o
    "                    node_id: $node_id,\n" \o
    "                    node_type: $node_type,\n" \o
    "                    segment_id: $segment_id,\n" \o
    "                    role: $role,\n" \o
    "                    workflow_name: $workflow_name,\n" \o
    "                    characteristic: $characteristic,\n" \o
    "                    prompt: $prompt,\n" \o
    "                    pain_point_need: $pain_point_need,\n" \o
    "                    artifacts: $artifacts,\n" \o
    "                    keywords_phrases: $keywords_phrases,\n" \o
    "                    outcomes: $outcomes,\n" \o
    "                    prompt_flexibility: $prompt_flexibility,\n" \o
    "                    instruction_with_example: $instruction_with_example,\n" \o
    "                    example_straightforward: $example_straightforward,\n" \o
    "                    example_complex: $example_complex,\n" \o
    "                    example_enterprise: $example_enterprise,\n" \o
    "                    created_at: $created_at\n" \o
    "                })\n" \o
    "                "

\* import_knowledge_graph.py, lines 170-183
QueryCSV_workflow_templates ==
    "\n" \o
    "                CREATE (wt:WORKFLOW_TEMPLATE {\n" \o
    "                    workflow_id: $workflow_id,\n" \o
    "                    node_type: $node_type,\n" \o
    "                    segment_id: $segment_id,\n" \o
    "                    workflow_name: $workflow_name,\n" \o
    "                    description: $description,\n" \o
    "                    business_value: $business_value,\n" \o
    "                    total_tasks: $total_tasks,\n" \o
    "                    involved_roles: $involved_roles,\n" \o
    "                    complexity_level: $complexity_level,\n" \o
    "                    created_at: $created_at\n" \o
    "                })\n" \o
    "                "

\* import_knowledge_graph.py, lines 217-228
QueryCSV_used_in_relationships ==
    "\n" \o
    "                MATCH (tt:TASK_TEMPLATE {node_id: $source_node_id})\n" \o
    "                MATCH (wt:WORKFLOW_TEMPLATE {workflow_id: $target_node_id})\n" \o
    "                CREATE (tt)-[r:USED_IN {\n" \o
    "                    relationship_type: $relationship_type,\n" \o
    "                    sequence_position: $sequence_position,\n" \o
    "                    priority_score: $priority_score,\n" \o
    "                    notification_trigger: $notification_trigger,\n" \o
    "                    visibility_roles: $visibility_roles,\n" \o
    "                    created_at: $created_at\n" \o
    "                }]->(wt)\n" \o
    "                "

\* import_knowledge_graph.py, lines 262-272
QueryCSV_depends_on_relationships ==
    "\n" \o
    "                MATCH (tt1:TASK_TEMPLATE {node_id: $source_node_id})\n" \o
    "                MATCH (tt2:TASK_TEMPLATE {node_id: $target_node_id})\n" \o
    "                CREATE (tt1)-[r:DEPENDS_ON {\n" \o
    "                    relationship_type: $relationship_type,\n" \o
    "                    workflow_context: $workflow_context,\n" \o
    "                    dependency_type: $dependency_type,\n" \o
    "                    priority_score: $priority_score,\n" \o
    "                    created_at: $created_at\n" \o
    "                }]->(tt2)\n" \o
    "                "

\* import_knowledge_graph_from_rtf.py, lines 91-100
QueryRTF_business_segments ==
    "\n" \o
    "            CREATE (bs:BUSINESS_SEGMENT {\n" \o
    "                segment_id: $segment_id,\n" \o
    "                segment_name: $segment_name,\n" \o
    "                description: $description,\n" \o
    "                version: $version,\n" \o
    "                node_type: $node_type,\n" \o
    "                created_at: $created_at\n" \o
    "            })\n" \o
    "            "

\* import_knowledge_graph_from_rtf.py, lines 128-148
QueryRTF_task_templates ==
    "\n" \o
    "            CREATE (tt:TASK_TEMPLATE {\n" \o
    "                node_id: $node_id,\n" \o
    "                node_type: $node_type,\n" \o
    "                segment_id: $segment_id,\n" \o
    "                role: $role,\n" \o
    "                workflow_name: $workflow_name,\n" \o
    "                characteristic: $characteristic,\n" \o
    "                prompt: $prompt,\n" \o
    "                pain_point_need: $pain_point_need,\n" \o
    "                artifacts: $artifacts,\n" \o
    "                keywords_phrases: $keywords_phrases,\n" \o
    "                outcomes: $outcomes,\n" \o
    "                prompt_flexibility: $prompt_flexibility,\n" \o
    "                instruction_with_example: $instruction_with_example,\n" \o
    "                example_straightforward: $example_straightforward,\n" \o
    "                example_complex: $example_complex,\n" \o
    "                example_enterprise: $example_enterprise,\n" \o
    "                created_at: $created_at\n" \o
    "            })\n" \o
    "            "

\* import_knowledge_graph_from_rtf.py, lines 187-200
QueryRTF_workflow_templates ==
    "\n" \o
    "            CREATE (wt:WORKFLOW_TEMPLATE {\n" \o
    "                workflow_id: $workflow_id,\n" \o
    "                node_type: $node_type,\n" \o
    "                segment_id: $segment_id,\n" \o
    "                workflow_name: $workflow_name,\n" \o
    "                description: $description,\n" \o
    "                business_value: $business_value,\n" \o
    "                total_tasks: $total_tasks,\n" \o
    "                involved_roles: $involved_roles,\n" \o
    "                complexity_level: $complexity_level,\n" \o
    "                created_at: $created_at\n" \o
    "            })\n" \o
    "            "

\* import_knowledge_graph_from_rtf.py, lines 232-243
QueryRTF_used_in_relationships ==
    "\n" \o
    "            MATCH (tt:TASK_TEMPLATE {node_id: $source_node_id})\n" \o
    "            MATCH (wt:WORKFLOW_TEMPLATE {workflow_id: $target_node_id})\n" \o
    "            CREATE (tt)-[r:USED_IN {\n" \o
    "                relationship_type: $relationship_type,\n" \o
    "                sequence_position: $sequence_position,\n" \o
    "                priority_score: $priority_score,\n" \o
    "                notification_trigger: $notification_trigger,\n" \o
    "                visibility_roles: $visibility_roles,\n" \o
    "                created_at: $created_at\n" \o
    "            }]->(wt)\n" \o
    "            "

\* import_knowledge_graph_from_rtf.py, lines 275-285
QueryRTF_depends_on_relationships ==
    "\n" \o
    "            MATCH (tt1:TASK_TEMPLATE {node_id: $source_node_id})\n" \o
    "            MATCH (tt2:TASK_TEMPLATE {node_id: $target_node_id})\n" \o
    "            CREATE (tt1)-[r:DEPENDS_ON {\n" \o
    "                relationship_type: $relationship_type,\n" \o
    "                workflow_context: $workflow_context,\n" \o
    "                dependency_type: $dependency_type,\n" \o
    "                priority_score: $priority_score,\n" \o
    "                created_at: $created_at\n" \o
    "            }]->(tt2)\n" \o
    "            "

(***************************************************************************)
(* int(text)                                                                *)
(***************************************************************************)
IsSpace(c) == c \in {" ", "\t", "\n", "\r", "\f"}
IsDigit(c) == Find("0123456789", c, 1) # 0

RECURSIVE LStrip(_)
LStrip(s) == IF Len(s) > 0 /\ IsSpace(SubSeq(s, 1, 1)) THEN LStrip(Tail(s)) ELSE s

RECURSIVE RStrip(_)
RStrip(s) ==
    IF Len(s) > 0 /\ IsSpace(SubSeq(s, Len(s), Len(s)))
    THEN RStrip(SubSeq(s, 1, Len(s) - 1)) ELSE s

\* s.strip()
Strip(s) == RStrip(LStrip(s))

Unsigned(s) ==
    LET t == Strip(s)
    IN  IF Len(t) > 0 /\ SubSeq(t, 1, 1) \in {"+", "-"} THEN Tail(t) ELSE t

\* int(s) returns (no ValueError): optional sign, then digits that single
\* underscores may separate
IsInt(s) ==
    LET d == Unsigned(s)
    IN  /\ Len(d) > 0
        /\ \A i \in 1..Len(d) : IsDigit(SubSeq(d, i, i)) \/ SubSeq(d, i, i) = "_"
        /\ IsDigit(SubSeq(d, 1, 1)) /\ IsDigit(SubSeq(d, Len(d), Len(d)))
        /\ Find(d, "__", 1) = 0

DigitVal(c) == Find("0123456789", c, 1) - 1

RECURSIVE NatOf(_)
NatOf(d) ==
    IF Len(d) = 0 THEN 0
    ELSE LET c == SubSeq(d, Len(d), Len(d))
             r == SubSeq(d, 1, Len(d) - 1)
         IN  IF c = "_" THEN NatOf(r) ELSE 10 * NatOf(r) + DigitVal(c)

\* int(s) for a text that IsInt
int(s) ==
    LET t == Strip(s)
    IN  IF SubSeq(t, 1, 1) = "-" THEN 0 - NatOf(Unsigned(s)) ELSE NatOf(Unsigned(s))

(***************************************************************************)
(* The five tables, in the order run_import loads them; the names are the   *)
(* keys of self.stats                                                       *)
(***************************************************************************)
Tables ==
    << "business_segments", "task_templates", "workflow_templates",
       "used_in_relationships", "depends_on_relationships" >>

TableSet == {Tables[i] : i \in 1..Len(Tables)}
NodeTables == {"business_segments", "task_templates", "workflow_templates"}
EdgeTables == {"used_in_relationships", "depends_on_relationships"}

\* the query template of a table import
query(v, t) ==
    IF v = "csv"
    THEN CASE t = "business_segments" -> QueryCSV_business_segments
           [] t = "task_templates" -> QueryCSV_task_templates
           [] t = "workflow_templates" -> QueryCSV_workflow_templates
           [] t = "used_in_relationships" -> QueryCSV_used_in_relationships
           [] t = "depends_on_relationships" -> QueryCSV_depends_on_relationships
    ELSE CASE t = "business_segments" -> QueryRTF_business_segments
           [] t = "task_templates" -> QueryRTF_task_templates
           [] t = "workflow_templates" -> QueryRTF_workflow_templates
           [] t = "used_in_relationships" -> QueryRTF_used_in_relationships
           [] t = "depends_on_relationships" -> QueryRTF_depends_on_relationships

\* the row fields a table import reads, in the order of its params dict
Fields(t) ==
    CASE t = "business_segments" ->
           <<"segment_id", "segment_name", "description", "version", "node_type">>
      [] t = "task_templates" ->
           <<"node_id", "node_type", "segment_id", "role", "workflow_name",
             "characteristic", "prompt", "pain_point_need", "artifacts",
             "keywords_phrases", "outcomes", "prompt_flexibility",
             "instruction_with_example", "example_straightforward",
             "example_complex", "example_enterprise">>
      [] t = "workflow_templates" ->
           <<"workflow_id", "node_type", "segment_id", "workflow_name", "description",
             "business_value", "total_tasks", "involved_roles", "complexity_level">>
      [] t = "used_in_relationships" ->
           <<"source_node_id", "target_node_id", "relationship_type",
             "sequence_position", "priority_score", "notification_trigger",
             "visibility_roles">>
      [] t = "depends_on_relationships" ->
           <<"source_node_id", "target_node_id", "relationship_type",
             "workflow_context", "dependency_type", "priority_score">>

\* the fields a table import passes through int()
IntFields(t) ==
    CASE t = "workflow_templates" -> {"total_tasks"}
      [] t = "used_in_relationships" -> {"priority_score"}
      [] t = "depends_on_relationships" -> {"priority_score"}
      [] OTHER -> {}

\* datetime.now().isoformat()
Now == "2025-01-15T10:30:00.123456"

\* building the params dict raises ValueError
RaisesValueError(t, r) == \E f \in IntFields(t) : ~IsInt(r[f])

\* the params dict of a row
params(t, r) ==
    LET fs == Fields(t)
    IN  Params([i \in 1..(Len(fs) + 1) |->
                  IF i = Len(fs) + 1 THEN <<"created_at", StrVal(Now)>>
                  ELSE IF fs[i] \in IntFields(t) THEN <<fs[i], IntVal(int(r[fs[i]]))>>
                  ELSE <<fs[i], StrVal(r[fs[i]])>>])

(***************************************************************************)
(* create_indexes and the verification queries                              *)
(***************************************************************************)
indexes(v) ==
    IF v = "csv"
    THEN << "CREATE INDEX FOR (n:TASK_TEMPLATE) ON (n.node_id)",
            "CREATE INDEX FOR (n:TASK_TEMPLATE) ON (n.role)",
            "CREATE INDEX FOR (n:TASK_TEMPLATE) ON (n.segment_id)",
            "CREATE INDEX FOR (n:WORKFLOW_TEMPLATE) ON (n.workflow_id)",
            "CREATE INDEX FOR (n:WORKFLOW_TEMPLATE) ON (n.segment_id)",
            "CREATE INDEX FOR (n:WORKFLOW_TEMPLATE) ON (n.complexity_level)",
            "CREATE INDEX FOR (n:BUSINESS_SEGMENT) ON (n.segment_id)",
            "CREATE INDEX FOR ()-[r:USED_IN]-() ON (r.sequence_position)",
            "CREATE INDEX FOR ()-[r:DEPENDS_ON]-() ON (r.workflow_context)",
            "CREATE INDEX FOR ()-[r:DEPENDS_ON]-() ON (r.dependency_type)" >>
    ELSE << "CREATE INDEX FOR (bs:BUSINESS_SEGMENT) ON (bs.segment_id)",
            "CREATE INDEX FOR (tt:TASK_TEMPLATE) ON (tt.node_id)",
            "CREATE INDEX FOR (tt:TASK_TEMPLATE) ON (tt.role)",
            "CREATE INDEX FOR (tt:TASK_TEMPLATE) ON (tt.segment_id)",
            "CREATE INDEX FOR (wt:WORKFLOW_TEMPLATE) ON (wt.workflow_id)",
            "CREATE INDEX FOR (wt:WORKFLOW_TEMPLATE) ON (wt.segment_id)",
            "CREATE INDEX FOR (wt:WORKFLOW_TEMPLATE) ON (wt.complexity_level)" >>

test_query ==
    "\n" \o
    "        MATCH (t:TASK_TEMPLATE)-[r:USED_IN]->(w:WORKFLOW_TEMPLATE)\n" \o
    "        WHERE t.role = 'PRODM' AND w.workflow_id = 'LAUNCH_001'\n" \o
    "        RETURN t.node_id, r.sequence_position, t.workflow_name\n" \o
    "        ORDER BY r.sequence_position\n" \o
    "        "

\* the queries of verify_import, in the order it runs them
verify_queries(v) ==
    IF v = "csv"
    THEN << "MATCH (n) RETURN labels(n)[0] as type, count(n) as count",
            "MATCH ()-[r]->() RETURN type(r) as type, count(r) as count",
            test_query >>
    ELSE << "MATCH (n:" \o "BUSINESS_SEGMENT" \o ") RETURN count(n)",
            "MATCH (n:" \o "TASK_TEMPLATE" \o ") RETURN count(n)",
            "MATCH (n:" \o "WORKFLOW_TEMPLATE" \o ") RETURN count(n)",
            "MATCH ()-[r:" \o "USED_IN" \o "]-() RETURN count(r)",
            "MATCH ()-[r:" \o "DEPENDS_ON" \o "]-() RETURN count(r)" >>

\* the query of RTFKnowledgeGraphImporter.test_autogen_queries
autogen_query ==
    "\n" \o
    "        MATCH (tt:TASK_TEMPLATE {role: 'PRODM'})\n" \o
    "        MATCH (tt)-[:USED_IN]->(wt:WORKFLOW_TEMPLATE {workflow_id: 'LAUNCH_001'})\n" \o
    "        RETURN tt.workflow_name, wt.workflow_name\n" \o
    "        "

\* the steps of run_import after the table loads
AfterLoad(v) ==
    IF v = "csv" THEN <<"create_indexes", "verify_import", "done">>
    ELSE <<"create_indexes", "verify_import", "test_autogen_queries", "done">>

\* a run_import that loads USED_IN before the workflow templates; C1 does
\* not hold of it
StepsEdgesFirst(v) ==
    << "business_segments", "task_templates", "used_in_relationships",
       "workflow_templates", "depends_on_relationships" >> \o AfterLoad(v)

\* the steps of run_import, in order
Steps(v) == Tables \o AfterLoad(v)

StepIndex(v, p) == CHOOSE i \in 1..Len(Steps(v)) : Steps(v)[i] = p
NextStep(v, p) == Steps(v)[StepIndex(v, p) + 1]

(***************************************************************************)
(* The graph store behind GRAPH.QUERY (the execution collaborator)          *)
(***************************************************************************)
Labels == {"BUSINESS_SEGMENT", "TASK_TEMPLATE", "WORKFLOW_TEMPLATE"}
RelTypes == {"USED_IN", "DEPENDS_ON"}

\* node tables: the label created and the field that holds the identity
LabelOf(t) ==
    CASE t = "business_segments" -> "BUSINESS_SEGMENT"
      [] t = "task_templates" -> "TASK_TEMPLATE"
      [] t = "workflow_templates" -> "WORKFLOW_TEMPLATE"

IdField(t) ==
    CASE t = "business_segments" -> "segment_id"
      [] t = "task_templates" -> "node_id"
      [] t = "workflow_templates" -> "workflow_id"

\* relationship tables: the type created and the label each MATCH looks in
RelOf(t) == IF t = "used_in_relationships" THEN "USED_IN" ELSE "DEPENDS_ON"
SourceLabel(t) == "TASK_TEMPLATE"
TargetLabel(t) == IF t = "used_in_relationships" THEN "WORKFLOW_TEMPLATE" ELSE "TASK_TEMPLATE"

EmptyGraph ==
    [nodes |-> [l \in Labels |-> <<>>], rels |-> [y \in RelTypes |-> 0]]

\* MATCH (x:label {identity: id}): the number of nodes it binds
Matches(g, label, id) ==
    Cardinality({i \in 1..Len(g.nodes[label]) : g.nodes[label][i] = id})

\* CREATE (x:label {...}): one more node, whatever nodes exist
CreateNode(g, t, r) ==
    [g EXCEPT !.nodes[LabelOf(t)] = Append(@, r[IdField(t)])]

\* a store that creates the relationship whether or not the endpoints
\* exist; C5 does not hold of it
CreateUnmatched(g, t, r) == [g EXCEPT !.rels[RelOf(t)] = @ + 1]

\* MATCH (a) MATCH (b) CREATE (a)-[r]->(b): one relationship per bound pair,
\* none when either MATCH binds nothing
MatchCreate(g, t, r) ==
    [g EXCEPT !.rels[RelOf(t)] =
        @ + Matches(g, SourceLabel(t), r["source_node_id"])
            * Matches(g, TargetLabel(t), r["target_node_id"])]

\* the store after it ran the mutation of row r of table t
Execute(g, t, r) == IF t \in NodeTables THEN CreateNode(g, t, r) ELSE MatchCreate(g, t, r)

(***************************************************************************)
(* Input tables                                                             *)
(***************************************************************************)
MaxNodeRows == 1
MaxEdgeRows == 2
MaxFailures == 1

SegmentRow(id) ==
    [segment_id |-> id, segment_name |-> "Product Management",
     description |-> "PM workflows", version |-> "2.0", node_type |-> "BUSINESS_SEGMENT"]

TaskRow(id) ==
    [node_id |-> id, node_type |-> "TASK_TEMPLATE", segment_id |-> "SEG1",
     role |-> "PRODM", workflow_name |-> "Launch plan", characteristic |-> "c",
     prompt |-> "p", pain_point_need |-> "n", artifacts |-> "a",
     keywords_phrases |-> "k", outcomes |-> "o", prompt_flexibility |-> "f",
     instruction_with_example |-> "i", example_straightforward |-> "s",
     example_complex |-> "x", example_enterprise |-> "e"]

WorkflowRow(id, total) ==
    [workflow_id |-> id, node_type |-> "WORKFLOW_TEMPLATE", segment_id |-> "SEG1",
     workflow_name |-> "Launch", description |-> "d", business_value |-> "v",
     total_tasks |-> total, involved_roles |-> "PRODM", complexity_level |-> "High"]

UsedInRow(src, dst, position, score) ==
    [source_node_id |-> src, target_node_id |-> dst, relationship_type |-> "USED_IN",
     sequence_position |-> position, priority_score |-> score,
     notification_trigger |-> "none", visibility_roles |-> "PRODM"]

DependsOnRow(src, dst, score) ==
    [source_node_id |-> src, target_node_id |-> dst, relationship_type |-> "DEPENDS_ON",
     workflow_context |-> "W1", dependency_type |-> "hard", priority_score |-> score]

RECURSIVE SeqsUpTo(_, _)
SeqsUpTo(S, n) ==
    IF n = 0 THEN {<<>>}
    ELSE LET R == SeqsUpTo(S, n - 1)
         IN  R \cup {Append(q, x) : q \in {e \in R : Len(e) = n - 1}, x \in S}

\* the rows the input tables of the model are made of, numbered; the last
\* row of a catalogue that has an int field is malformed
Catalogues ==
    [business_segments |->
        [i \in 1..MaxNodeRows |-> SegmentRow("SEG" \o IntStr(i))],
     task_templates |->
        [i \in 1..MaxNodeRows |-> TaskRow("T" \o IntStr(i))],
     workflow_templates |->
        [i \in 1..(MaxNodeRows + 1) |->
           IF i <= MaxNodeRows THEN WorkflowRow("W" \o IntStr(i), "12")
           ELSE WorkflowRow("W0", "many")],
     used_in_relationships |->
        <<UsedInRow("T1", "W1", "1", " 5"), UsedInRow("T2", "W1", "1", "abc"),
          UsedInRow("T1", "W1", "first", "7")>>,
     depends_on_relationships |->
        [i \in 1..(MaxEdgeRows + 1) |->
           IF i <= MaxEdgeRows THEN DependsOnRow("T" \o IntStr(i), "T" \o IntStr(i + 1), "-3")
           ELSE DependsOnRow("T2", "T1", "")]]

Catalogue(t) == Catalogues[t]

\* the first n rows of a catalogue
Prefix(n) == [i \in 1..n |-> i]

\* a table is the sequence of the catalogue numbers of its rows: the
\* business segments are all there, the other tables are empty or full, a
\* table with an int field may end with the malformed row instead, and the
\* USED_IN table is empty, any sequence of MaxEdgeRows of its first two rows,
\* or copies of its first row and then the row whose sequence_position is
\* not a number
SegmentTables == {Prefix(MaxNodeRows)}
TaskTables == {Prefix(0), Prefix(MaxNodeRows)}
WorkflowTables ==
    {Prefix(0), Prefix(MaxNodeRows), Append(Prefix(MaxNodeRows - 1), MaxNodeRows + 1)}
UsedInTables ==
    {Prefix(0)} \cup {q \in SeqsUpTo(1..2, MaxEdgeRows) : Len(q) = MaxEdgeRows}
    \cup {Append([i \in 1..(MaxEdgeRows - 1) |-> 1], 3)}
DependsOnTables ==
    {Prefix(0), Prefix(MaxEdgeRows), Append(Prefix(MaxEdgeRows - 1), MaxEdgeRows + 1)}

Sources ==
    {[business_segments |-> a, task_templates |-> b, workflow_templates |-> c,
      used_in_relationships |-> d, depends_on_relationships |-> e] :
        a \in SegmentTables, b \in TaskTables, c \in WorkflowTables,
        d \in UsedInTables, e \in DependsOnTables}

\* the text execute_cypher sends for each row of the catalogue of table t
\* (the empty text for a row that never gets as far as execute_cypher)
RECURSIVE RenderRows(_, _, _)
RenderRows(v, t, k) ==
    IF k = 0 THEN <<>>
    ELSE LET r == Catalogue(t)[k]
         IN  Append(RenderRows(v, t, k - 1),
                    IF RaisesValueError(t, r) THEN ""
                    ELSE query_with_params(v, query(v, t), params(t, r)))

RenderTables(v) ==
    << RenderRows(v, Tables[1], Len(Catalogue(Tables[1]))),
       RenderRows(v, Tables[2], Len(Catalogue(Tables[2]))),
       RenderRows(v, Tables[3], Len(Catalogue(Tables[3]))),
       RenderRows(v, Tables[4], Len(Catalogue(Tables[4]))),
       RenderRows(v, Tables[5], Len(Catalogue(Tables[5]))) >>

rendered == <<RenderTables("csv"), RenderTables("rtf")>>

TableIndex(t) == CHOOSE i \in 1..Len(Tables) : Tables[i] = t

\* query_with_params for row number k of the catalogue of table t
query_text(v, t, k) == rendered[IF v = "csv" THEN 1 ELSE 2][TableIndex(t)][k]

(***************************************************************************)
(* RTFKnowledgeGraphImporter.extract_csv_from_rtf                           *)
(***************************************************************************)
\* the literal text csv_pattern begins with
Marker == "\\strokec2 "

\* re.findall(csv_pattern, content, re.DOTALL) from position i on: each match
\* is the marker, then the shortest run of one character or more that a
\* closing brace follows; the search goes on after that brace
RECURSIVE FindAllFrom(_, _)
FindAllFrom(content, i) ==
    LET p == Find(content, Marker, i)
        start == p + Len(Marker)
        close == IF p = 0 THEN 0 ELSE Find(content, "}", start + 1)
    IN  IF close = 0 THEN <<>>
        ELSE <<SubSeq(content, start, close - 1)>> \o FindAllFrom(content, close + 1)

matches(content) == FindAllFrom(content, 1)

\* s.split(sep)
RECURSIVE SplitFrom(_, _, _)
SplitFrom(s, sep, i) ==
    LET j == Find(s, sep, i)
    IN  IF j = 0 THEN <<SubSeq(s, i, Len(s))>>
        ELSE <<SubSeq(s, i, j - 1)>> \o SplitFrom(s, sep, j + Len(sep))

Split(s, sep) == SplitFrom(s, sep, 1)

\* a clean-up that leaves the braces in; C18 does not hold of it
csv_content_with_braces(captured) == StrReplace(captured, "\\", "\n")

\* matches[0] with every backslash made a newline and every brace removed
csv_content(captured) ==
    StrReplace(StrReplace(StrReplace(captured, "\\", "\n"), "{", ""), "}", "")

\* [line.strip() for line in csv_content.strip().split('\n') if line.strip()]
lines_of(content) ==
    LET kept == SelectSeq(Split(Strip(content), "\n"), LAMBDA line : Strip(line) # "")
    IN  [i \in 1..Len(kept) |-> Strip(kept[i])]

\* an extraction that reads a content without a match as the table itself;
\* C13 does not hold of it
extract_whole_content(content) ==
    LET m == matches(content)
    IN  IF m = <<>> THEN lines_of(csv_content(content)) ELSE lines_of(csv_content(m[1]))

extract_csv_from_rtf(content) ==
    LET m == matches(content)
    IN  IF m = <<>> THEN <<>> ELSE lines_of(csv_content(m[1]))

(***************************************************************************)
(* csv.DictReader, for lines that hold no quote character                   *)
(***************************************************************************)
\* the row csv.reader makes of one line: its comma-separated fields, no field
\* for an empty line
csv_row(line) == IF line = "" THEN <<>> ELSE Split(line, ",")

\* a value of a row mapping: a field of the line, or the restval None
FieldValue(s) == [none |-> FALSE, s |-> s]
NoneValue == [none |-> TRUE, s |-> ""]

\* dict(zip(fieldnames, row)), restval for the names the row is too short
\* for, the fields beyond the names under restkey (key None)
DictRow(fieldnames, r) ==
    [items |-> [k \in 1..Len(fieldnames) |->
                  <<fieldnames[k], IF k <= Len(r) THEN FieldValue(r[k]) ELSE NoneValue>>],
     rest |-> SubSeq(r, Len(fieldnames) + 1, Len(r))]

\* the rows of csv.DictReader(lines): the first line holds the field names,
\* lines without any field are skipped
DictReader(lines) ==
    IF lines = <<>> THEN <<>>
    ELSE LET fieldnames == csv_row(lines[1])
             data == SelectSeq(Tail(lines), LAMBDA line : csv_row(line) # <<>>)
         IN  [i \in 1..Len(data) |-> DictRow(fieldnames, csv_row(data[i]))]

\* the lines csv.DictReader reads from an open text file
FileLines(text) == IF text = "" THEN <<>> ELSE Split(text, "\n")

\* row[name]: the value, or KeyError
HasKey(r, name) == \E k \in 1..Len(r.items) : r.items[k][1] = name
Get(r, name) ==
    r.items[CHOOSE k \in 1..Len(r.items) :
                /\ r.items[k][1] = name
                /\ \A m \in 1..Len(r.items) : r.items[m][1] = name => m <= k][2]

(***************************************************************************)
(* State                                                                    *)
(***************************************************************************)
VARIABLES
    variant,     \* which importer runs: "csv" or "rtf"
    source,      \* the rows each table's reader yields, by catalogue number
    pc,          \* the step run_import is in
    row,         \* 1-based position in the loop of that step
    stats,       \* self.stats
    submitted,   \* the GRAPH.QUERY commands sent so far, with their outcome
    graph,       \* the store
    raised,      \* the exception that left run_import, "none" if none
    t_query, t_params, t_impl, t_out,  \* one execute_cypher call on its own
    payload,     \* the delimited text the business segments file encodes
    document,    \* the text of the business segments file
    csv_lines,   \* what extract_csv_from_rtf returned for it
    reader,      \* the rows of the csv.DictReader over it
    kq_method,   \* the KnowledgeGraphQuery method called last, "none" before
    kq_arg,      \* its argument
    kq_sent,     \* the query text it sent to the store
    kq_calls,    \* the number of calls so far
    kq_reply,    \* what the collaborator answered to the last call
    kq_returned  \* what query() returned for it

rvars == <<variant, source, pc, row, stats, submitted, graph, raised>>
tvars == <<t_query, t_params, t_impl, t_out>>
svars == <<payload, document, csv_lines, reader>>
qvars == <<kq_method, kq_arg, kq_sent, kq_calls, kq_reply, kq_returned>>
vars == <<variant, source, pc, row, stats, submitted, graph, raised,
          t_query, t_params, t_impl, t_out, payload, document, csv_lines, reader,
          kq_method, kq_arg, kq_sent, kq_calls, kq_reply, kq_returned>>

\* self.stats after __init__
InitStats ==
    [business_segments |-> 0, task_templates |-> 0, workflow_templates |-> 0,
     used_in_relationships |-> 0, depends_on_relationships |-> 0, errors |-> <<>>]

Failures == Cardinality({i \in 1..Len(submitted) : submitted[i].outcome = "fail"})

\* what the collaborator may answer to the next command
Outcomes == IF Failures < MaxFailures THEN {"ok", "fail"} ELSE {"ok"}

\* str(e) of the collaborator's exception
ErrorText == "Connection refused"

(***************************************************************************)
(* execute_cypher                                                           *)
(***************************************************************************)
\* the value of the local `query` when the except clause runs: the RTF
\* importer has overwritten it with the substituted text it sent
failed_query(v, q, text) == IF v = "rtf" THEN text ELSE q

\* an entry that carries the whole query text; C2 does not hold of it
error_entry_whole_query(v, q, e) ==
    IF v = "csv"
    THEN "Query error: " \o q \o "... - " \o e
    ELSE "Query error: " \o q \o " ... - " \o "Query failed: " \o e

\* the entry the except clause appends to self.stats['errors']
error_entry(v, q, e) ==
    IF v = "csv"
    THEN "Query error: " \o Take(q, 100) \o "... - " \o e
    ELSE "Query error: " \o Take(q, 100) \o " ... - " \o "Query failed: " \o e

\* an execute_cypher that swallows a failure without recording it; C20 does
\* not hold of it
execute_cypher_silent(st, v, q, text, outcome) == st

\* self.stats after execute_cypher(q, params) sent text and met the outcome
execute_cypher(st, v, q, text, outcome) ==
    IF outcome = "fail"
    THEN [st EXCEPT !.errors = Append(@, error_entry(v, failed_query(v, q, text), ErrorText))]
    ELSE st

\* the command sent by step `step` for its item i
Command(step, i, text, outcome) ==
    [step |-> step, row |-> i, query |-> text, outcome |-> outcome]

\* a count that also bumps the counter of the business segments; C21 does
\* not hold of it
counted_with_segments(st, t, outcome) ==
    [st EXCEPT ![t] = @ + 1, !["business_segments"] = @ + 1]

\* a counter of the successful calls only; C4 does not hold of it
counted_if_ok(st, t, outcome) == IF outcome = "ok" THEN [st EXCEPT ![t] = @ + 1] ELSE st

\* self.stats[t] += 1 after the call, whatever its outcome
counted(st, t, outcome) == [st EXCEPT ![t] = @ + 1]

(***************************************************************************)
(* The table imports                                                        *)
(***************************************************************************)
\* one iteration of `for row in reader`
ImportRow(t) ==
    /\ pc = t /\ raised = "none"
    /\ row <= Len(source[t])
    /\ LET r == Catalogue(t)[source[t][row]]
           q == query(variant, t)
           text == query_text(variant, t, source[t][row])
       IN  IF RaisesValueError(t, r)
           THEN /\ raised' = "ValueError"
                /\ UNCHANGED <<pc, row, stats, submitted, graph>>
           ELSE \E outcome \in Outcomes :
                /\ submitted' = Append(submitted, Command(t, row, text, outcome))
                /\ graph' = IF outcome = "ok" THEN Execute(graph, t, r) ELSE graph
                /\ stats' = counted(execute_cypher(stats, variant, q, text, outcome), t, outcome)
                /\ row' = row + 1
                /\ UNCHANGED <<pc, raised>>
    /\ UNCHANGED <<variant, source, tvars, svars, qvars>>

\* the reader is exhausted: the import returns and run_import goes on
Return(p) ==
    /\ pc = p /\ raised = "none"
    /\ pc' = NextStep(variant, p)
    /\ row' = 1
    /\ UNCHANGED <<variant, source, stats, submitted, graph, raised, tvars, svars, qvars>>

import_business_segments ==
    \/ ImportRow("business_segments")
    \/ row > Len(source["business_segments"]) /\ Return("business_segments")

import_task_templates ==
    \/ ImportRow("task_templates")
    \/ row > Len(source["task_templates"]) /\ Return("task_templates")

import_workflow_templates ==
    \/ ImportRow("workflow_templates")
    \/ row > Len(source["workflow_templates"]) /\ Return("workflow_templates")

import_task_workflow_relationships ==
    \/ ImportRow("used_in_relationships")
    \/ row > Len(source["used_in_relationships"]) /\ Return("used_in_relationships")

import_task_dependencies ==
    \/ ImportRow("depends_on_relationships")
    \/ row > Len(source["depends_on_relationships"]) /\ Return("depends_on_relationships")

(***************************************************************************)
(* create_indexes, verify_import, test_autogen_queries                      *)
(***************************************************************************)
\* a query without params sent through execute_cypher
RunQuery(step, text) ==
    \E outcome \in Outcomes :
        /\ submitted' = Append(submitted,
               Command(step, row, query_with_params(variant, text, NoParams), outcome))
        /\ stats' = execute_cypher(stats, variant, text,
                                   query_with_params(variant, text, NoParams), outcome)
        /\ row' = row + 1
        /\ UNCHANGED <<pc, graph, raised>>

\* a command sent with self.redis_client.execute_command, outside any try
RunCommand(step, text) ==
    \E outcome \in Outcomes :
        /\ submitted' = Append(submitted, Command(step, row, text, outcome))
        /\ raised' = IF outcome = "fail" THEN "RedisError" ELSE raised
        /\ row' = IF outcome = "fail" THEN row ELSE row + 1
        /\ UNCHANGED <<pc, stats, graph>>

\* a create_indexes that sends its statements outside any try; C15 does not
\* hold of it
create_indexes_uncaught ==
    /\ pc = "create_indexes" /\ raised = "none"
    /\ \/ /\ row <= Len(indexes(variant))
          /\ RunCommand("create_indexes",
                        query_with_params(variant, indexes(variant)[row], NoParams))
          /\ UNCHANGED <<variant, source, tvars, svars, qvars>>
       \/ row > Len(indexes(variant)) /\ Return("create_indexes")

create_indexes ==
    /\ pc = "create_indexes" /\ raised = "none"
    /\ \/ /\ row <= Len(indexes(variant))
          /\ RunQuery("create_indexes", indexes(variant)[row])
          /\ UNCHANGED <<variant, source, tvars, svars, qvars>>
       \/ row > Len(indexes(variant)) /\ Return("create_indexes")

verify_import ==
    /\ pc = "verify_import" /\ raised = "none"
    /\ \/ /\ row <= Len(verify_queries(variant))
          /\ IF variant = "csv"
             THEN RunCommand("verify_import", verify_queries(variant)[row])
             ELSE RunQuery("verify_import", verify_queries(variant)[row])
          /\ UNCHANGED <<variant, source, tvars, svars, qvars>>
       \/ row > Len(verify_queries(variant)) /\ Return("verify_import")

test_autogen_queries ==
    /\ pc = "test_autogen_queries" /\ raised = "none"
    /\ \/ /\ row = 1
          /\ RunQuery("test_autogen_queries", autogen_query)
          /\ UNCHANGED <<variant, source, tvars, svars, qvars>>
       \/ row > 1 /\ Return("test_autogen_queries")

(***************************************************************************)
(* run_import                                                               *)
(***************************************************************************)
Init ==
    /\ variant \in {"csv", "rtf"}
    /\ source \in Sources
    /\ pc = Tables[1]
    /\ row = 1
    /\ stats = InitStats
    /\ submitted = <<>>
    /\ graph = EmptyGraph
    /\ raised = "none"
    /\ t_query = "" /\ t_params = NoParams /\ t_impl = "none" /\ t_out = ""
    /\ payload = "" /\ document = "" /\ csv_lines = <<>> /\ reader = <<>>
    /\ kq_method = "none" /\ kq_arg = "" /\ kq_sent = "" /\ kq_calls = 0
    /\ kq_reply = [fails |-> FALSE, result |-> <<>>] /\ kq_returned = <<>>

Next ==
    \/ import_business_segments
    \/ import_task_templates
    \/ import_workflow_templates
    \/ import_task_workflow_relationships
    \/ import_task_dependencies
    \/ create_indexes
    \/ verify_import
    \/ test_autogen_queries

Spec == Init /\ [][Next]_vars

(***************************************************************************)
(* Properties of run_import                                                 *)
(***************************************************************************)
Last(s) == s[Len(s)]

\* the commands of step p sent so far
Sent(p) == SelectSeq(submitted, LAMBDA c : c.step = p)

\* the mutations (commands of the table imports) sent so far
Mutations == SelectSeq(submitted, LAMBDA c : c.step \in TableSet)

\* run_import is past the import of table t and nothing was raised
Returned(t) == raised = "none" /\ StepIndex(variant, pc) > TableIndex(t)

RowsOf(t) == [i \in 1..Len(source[t]) |-> <<t, i>>]

\* every row of the five tables, in load order
LoadOrder ==
    RowsOf("business_segments") \o RowsOf("task_templates") \o RowsOf("workflow_templates")
    \o RowsOf("used_in_relationships") \o RowsOf("depends_on_relationships")

\* this step sent one more command
Sends == submitted' # submitted

\* C1: the mutations sent are, in order, the rows of business segments, task
\* templates, workflow templates, USED_IN and DEPENDS_ON, each table in
\* source order: always a prefix of that list and the whole list once the
\* loads have returned; the command sent last is never a node mutation
\* after an edge mutation nor a mutation after an index or verification
\* command, and a step sends at most one command, appended to those already
\* sent, so that no edge mutation ever precedes a node mutation.
C1_LoadOrder ==
    /\ [](LET M == Mutations
          IN  /\ Len(M) <= Len(LoadOrder)
              /\ \A k \in 1..Len(M) :
                    /\ <<M[k].step, M[k].row>> = LoadOrder[k]
                    /\ M[k].query = query_text(variant, M[k].step, source[M[k].step][M[k].row])
              /\ (raised = "none" /\ pc \notin TableSet) => Len(M) = Len(LoadOrder)
              /\ \A i \in 1..Len(submitted), j \in {Len(submitted)} :
                    i < j => /\ ~(submitted[i].step \in EdgeTables /\ submitted[j].step \in NodeTables)
                             /\ ~(submitted[i].step \notin TableSet /\ submitted[j].step \in TableSet))
    /\ [][Sends => /\ Len(submitted') = Len(submitted) + 1
                   /\ SubSeq(submitted', 1, Len(submitted)) = submitted]_vars

\* a full load: all five tables have rows, edges were sent after the nodes
C1_Witness ==
    /\ pc = "done" /\ raised = "none"
    /\ \A t \in TableSet : Len(Sent(t)) = Len(source[t]) /\ Len(source[t]) >= 1
    /\ Len(Sent("used_in_relationships")) >= 2

\* C2: when the collaborator raises on the mutation of a row, exactly one
\* entry is appended to stats['errors'], made of the first 100 characters of
\* the query text and the error message; nothing is raised, and the loop
\* moves to the next row of the same table. Failures make the run skip
\* nothing: a table import that is at row i has submitted rows 1..i-1, and
\* one that has returned has submitted every row of its table.
C2_FailureIsRecorded ==
    /\ [](\A t \in TableSet :
            /\ (pc = t /\ raised = "none") => Len(Sent(t)) = row - 1
            /\ Returned(t) => Len(Sent(t)) = Len(source[t]))
    /\ [][(Sends /\ Last(submitted').outcome = "fail" /\ Last(submitted').step \in TableSet) =>
         LET c == Last(submitted')
             Q == IF variant = "rtf" THEN c.query ELSE query(variant, c.step)
         IN  /\ Len(Q) >= 100
             /\ stats'.errors = Append(stats.errors,
                    "Query error: " \o SubSeq(Q, 1, 100)
                    \o (IF variant = "rtf" THEN " ... - Query failed: " ELSE "... - ")
                    \o ErrorText)
             /\ raised' = "none"
             /\ pc' = pc /\ pc = c.step
             /\ row' = row + 1 /\ row = c.row]_vars

\* a failed mutation, then a later row of the same table and a later table
C2_Witness ==
    /\ pc = "done" /\ raised = "none" /\ Len(stats.errors) = 1
    /\ \E i, j, k \in 1..Len(submitted) :
          /\ i < j /\ j < k
          /\ submitted[i].outcome = "fail" /\ submitted[i].step \in TableSet
          /\ submitted[j].step = submitted[i].step
          /\ submitted[k].step \in TableSet /\ submitted[k].step # submitted[i].step

\* C3: no row content makes run_import abort: a malformed row (a non-numeric
\* priority_score or total_tasks) raises nothing out of the table import,
\* and the rows after it are still submitted and counted.
C3_MalformedRowDoesNotAbort ==
    /\ raised # "ValueError"
    /\ \A t \in TableSet : Returned(t) => stats[t] = Len(source[t])

\* C4: a table's counter counts the mutations sent for it, whatever their
\* outcome; once the table import has returned it equals the number of rows
\* of the table.
C4_CountersTrackAttempts ==
    \A t \in TableSet :
        /\ stats[t] = Len(Sent(t))
        /\ pc = t /\ raised = "none" => stats[t] = row - 1
        /\ Returned(t) => stats[t] = Len(source[t])

\* the USED_IN import returned with two rows counted: one failed, one matched
\* no endpoint, no relationship exists
C4_Witness ==
    /\ Returned("used_in_relationships")
    /\ stats["used_in_relationships"] = 2
    /\ \E i, j \in 1..Len(submitted) :
          /\ submitted[i].step = "used_in_relationships" /\ submitted[i].outcome = "fail"
          /\ submitted[j].step = "used_in_relationships" /\ submitted[j].outcome = "ok"
    /\ graph.rels["USED_IN"] = 0

\* the edge row a step submits has an endpoint that matches no node
Misses(t) ==
    /\ pc = t /\ raised = "none" /\ row <= Len(source[t])
    /\ LET r == Catalogue(t)[source[t][row]]
       IN  \/ Matches(graph, SourceLabel(t), r["source_node_id"]) = 0
           \/ Matches(graph, TargetLabel(t), r["target_node_id"]) = 0

\* C5: an edge row whose source or target identity matches no node creates
\* no relationship and raises nothing, its counter is incremented, and the
\* store's answer to it adds nothing to stats['errors'].
C5_SilentReferentialMiss ==
    [][\A t \in EdgeTables :
         (Misses(t) /\ Sends) =>
            /\ graph'.rels = graph.rels
            /\ raised' = "none"
            /\ stats'[t] = stats[t] + 1
            /\ Last(submitted').outcome = "ok" => stats'.errors = stats.errors]_vars

\* a USED_IN row was sent and answered while no workflow node existed
C5_Witness ==
    /\ pc = "used_in_relationships" /\ row = 2 /\ raised = "none"
    /\ graph.nodes["WORKFLOW_TEMPLATE"] = <<>>
    /\ graph.nodes["TASK_TEMPLATE"] # <<>>
    /\ Last(submitted).step = "used_in_relationships" /\ Last(submitted).outcome = "ok"
    /\ stats["used_in_relationships"] = 1
    /\ stats.errors = <<>>
    /\ graph.rels["USED_IN"] = 0

(***************************************************************************)
(* One execute_cypher call on arbitrary arguments                           *)
(***************************************************************************)
MaxParams == 2

TQueries == {"$id", "{a: $id, b: $id_extra}", "$id_extra $id", "$id2 $id", "$n;$zz"}
TKeys == {"id", "id_extra", "n"}
TValues ==
    {StrVal(s) : s \in {"x", "y", "$id", "$id_extra", "a\"b", "\\", "a\nb\r"}}
    \cup {IntVal(n) : n \in {7, -12}}
    \cup {ListVal(<<"a", "b">>)}

RECURSIVE DictItems(_)
DictItems(n) ==
    IF n = 0 THEN {<<>>}
    ELSE LET S == DictItems(n - 1)
         IN  S \cup {Append(d, <<k, v>>) :
                      d \in {e \in S : Len(e) = n - 1}, k \in TKeys, v \in TValues}

DistinctKeys(d) == \A i, j \in 1..Len(d) : i # j => d[i][1] # d[j][1]

TParams == {NoParams} \cup {Params(d) : d \in {e \in DictItems(MaxParams) : DistinctKeys(e)}}

TInit ==
    /\ t_query \in TQueries
    /\ t_params \in TParams
    /\ t_impl = "none"
    /\ t_out = ""
    /\ variant = "rtf"
    /\ source = [t \in TableSet |-> <<>>]
    /\ pc = "idle"
    /\ row = 1
    /\ stats = InitStats
    /\ submitted = <<>>
    /\ graph = EmptyGraph
    /\ raised = "none"
    /\ payload = "" /\ document = "" /\ csv_lines = <<>> /\ reader = <<>>
    /\ kq_method = "none" /\ kq_arg = "" /\ kq_sent = "" /\ kq_calls = 0
    /\ kq_reply = [fails |-> FALSE, result |-> <<>>] /\ kq_returned = <<>>

ExecuteCypherRTF ==
    /\ t_impl = "none"
    /\ t_impl' = "rtf"
    /\ t_out' = query_with_params("rtf", t_query, t_params)
    /\ UNCHANGED <<t_query, t_params, rvars, svars, qvars>>

ExecuteCypherCSV ==
    /\ t_impl = "none"
    /\ t_impl' = "csv"
    /\ t_out' = query_with_params("csv", t_query, t_params)
    /\ UNCHANGED <<t_query, t_params, rvars, svars, qvars>>

TNext == ExecuteCypherRTF \/ ExecuteCypherCSV

TemplaterSpec == TInit /\ [][TNext]_vars

(***************************************************************************)
(* Properties of execute_cypher                                            *)
(***************************************************************************)

\* execute_cypher of the importer has been called with a mapping that has entries.
Called(impl) == t_impl = impl /\ ~t_params.none /\ t_params.items # <<>>

Keys(items) == {items[i][1] : i \in 1..Len(items)}

StartsAt(s, pat, i) == i + Len(pat) - 1 <= Len(s) /\ SubSeq(s, i, i + Len(pat) - 1) = pat

\* The entries of the mapping whose placeholder begins at position i of the text.
Candidates(text, i, items) ==
    {k \in 1..Len(items) : StartsAt(text, "$" \o items[k][1], i)}

\* Among them, the entry with the longest name.
Longest(items, cands) ==
    CHOOSE k \in cands : \A m \in cands : Len(items[m][1]) <= Len(items[k][1])

\* The literal execute_cypher of the RTF importer writes for one value.
Literal(value) ==
    IF value.type = "str" THEN "\"" \o escaped_value(value.s) \o "\"" ELSE PyStr(value)

\* The template with every placeholder occurrence replaced, in one pass over
\* the template, by the literal of the value of the longest name that fits.
RECURSIVE OwnValues(_, _, _)
OwnValues(text, i, items) ==
    IF i > Len(text) THEN ""
    ELSE LET cands == Candidates(text, i, items)
         IN  IF cands = {}
             THEN LET rest == OwnValues(text, i + 1, items)
                  IN  IF Len(rest) < 0 THEN rest ELSE SubSeq(text, i, i) \o rest
             ELSE LET k == Longest(items, cands)
                      rest == OwnValues(text, i + 1 + Len(items[k][1]), items)
                  IN  IF Len(rest) < 0 THEN rest ELSE Literal(items[k][2]) \o rest

IsPrefix(a, b) == Len(a) < Len(b) /\ SubSeq(b, 1, Len(a)) = a

PrefixCollision(items) ==
    \E i, j \in 1..Len(items) : IsPrefix(items[i][1], items[j][1])

\* C6: when one mapping name is a prefix of another, the RTF importer's
\* execute_cypher replaces every placeholder occurrence in the template by the
\* literal of its own value, whatever the order of the mapping's entries.
C6_PrefixSafety ==
    (Called("rtf") /\ PrefixCollision(t_params.items))
        => t_out = OwnValues(t_query, 1, t_params.items)

\* The character an escape sequence of a Cypher string literal stands for.
Unescape(c) == IF c = "n" THEN "\n" ELSE IF c = "r" THEN "\r" ELSE c

NoLiteral == [ok |-> FALSE, value |-> "", next |-> 0]

\* Reads the body of a double-quoted literal from position i of the text: the
\* string it denotes and the position after its closing quote.
RECURSIVE ReadFrom(_, _, _)
ReadFrom(text, i, acc) ==
    IF i > Len(text) THEN NoLiteral
    ELSE LET c == SubSeq(text, i, i)
         IN  IF c = "\"" THEN [ok |-> TRUE, value |-> acc, next |-> i + 1]
             ELSE IF c = "\\"
                  THEN IF i + 1 > Len(text) THEN NoLiteral
                       ELSE LET a == acc \o Unescape(SubSeq(text, i + 1, i + 1))
                            IN  IF Len(a) < 0 THEN NoLiteral ELSE ReadFrom(text, i + 2, a)
                  ELSE LET a == acc \o c
                       IN  IF Len(a) < 0 THEN NoLiteral ELSE ReadFrom(text, i + 1, a)

ReadLiteral(text, i) ==
    IF StartsAt(text, "\"", i) THEN ReadFrom(text, i + 1, "") ELSE NoLiteral

\* The text from position j is the rendering of the template from position i
\* in which every str value stands as one closed literal denoting the value,
\* and everything else is as the RTF importer writes it.
RECURSIVE ClosedRTF(_, _, _, _, _)
ClosedRTF(template, i, items, text, j) ==
    IF i > Len(template) THEN j = Len(text) + 1
    ELSE LET cands == Candidates(template, i, items)
         IN  IF cands = {}
             THEN /\ StartsAt(text, SubSeq(template, i, i), j)
                  /\ ClosedRTF(template, i + 1, items, text, j + 1)
             ELSE LET k == Longest(items, cands)
                      value == items[k][2]
                      after == i + 1 + Len(items[k][1])
                  IN  IF value.type = "str"
                      THEN LET lit == ReadLiteral(text, j)
                           IN  /\ lit.ok
                               /\ lit.value = value.s
                               /\ ClosedRTF(template, after, items, text, lit.next)
                      ELSE /\ StartsAt(text, PyStr(value), j)
                           /\ ClosedRTF(template, after, items, text, j + Len(PyStr(value)))

\* The text from position j is the CYPHER header for the entries from k on,
\* each str value one closed literal denoting the value, followed by the
\* template.
RECURSIVE ClosedCSV(_, _, _, _, _)
ClosedCSV(items, k, template, text, j) ==
    IF k > Len(items) THEN SubSeq(text, j, Len(text)) = template
    ELSE LET key == items[k][1]
             value == items[k][2]
             at == j + Len(key) + 1
         IN  /\ StartsAt(text, key \o "=", j)
             /\ IF value.type = "str"
                THEN LET lit == ReadLiteral(text, at)
                     IN  /\ lit.ok
                         /\ lit.value = value.s
                         /\ StartsAt(text, " ", lit.next)
                         /\ ClosedCSV(items, k + 1, template, text, lit.next + 1)
                ELSE LET rendering == SubSeq(formatted_param(key, value), Len(key) + 2,
                                             Len(formatted_param(key, value)))
                     IN  /\ StartsAt(text, rendering \o " ", at)
                         /\ ClosedCSV(items, k + 1, template, text,
                                      at + Len(rendering) + 1)

\* C7: in both importers every str value of the mapping stands in the
\* submitted text as one closed quoted literal that denotes the original
\* value; no value ends its literal early, is rewritten by a later
\* substitution, or changes text outside its own literal.
C7_ClosedLiterals ==
    /\ Called("rtf") => ClosedRTF(t_query, 1, t_params.items, t_out, 1)
    /\ Called("csv") => /\ StartsAt(t_out, "CYPHER ", 1)
                        /\ ClosedCSV(t_params.items, 1, t_query, t_out, 8)

\* C8: after execute_cypher of the RTF importer has substituted a mapping, no
\* placeholder of any name of the mapping remains in the submitted text.
C8_NoPlaceholderRemains ==
    Called("rtf") => \A key \in Keys(t_params.items) : Find(t_out, "$" \o key, 1) = 0

IsIdentChar(c) ==
    Find("abcdefghijklmnopqrstuvwxyzABCDEFGHIJKLMNOPQRSTUVWXYZ0123456789_", c, 1) # 0

\* The end of the longest run of identifier characters that starts at i.
RECURSIVE NameEnd(_, _)
NameEnd(text, i) ==
    IF i <= Len(text) /\ IsIdentChar(SubSeq(text, i, i)) THEN NameEnd(text, i + 1) ELSE i - 1

\* The placeholder tokens of a text: "$" followed by a whole name.
Tokens(text) ==
    {SubSeq(text, i, NameEnd(text, i + 1)) :
        i \in {j \in 1..Len(text) : SubSeq(text, j, j) = "$" /\ NameEnd(text, j + 1) > j}}

\* The number of times the token occurs in the text as a whole token.
TokenCount(text, token) ==
    Cardinality({i \in 1..Len(text) :
        StartsAt(text, token, i) /\ NameEnd(text, i + 1) = i + Len(token) - 1})

Unknown(template, items) ==
    {token \in Tokens(template) : SubSeq(token, 2, Len(token)) \notin Keys(items)}

\* C9: a placeholder of the template whose name is not a name of the mapping
\* is passed through unchanged by the RTF importer, also when a shorter name
\* of the mapping is a prefix of it.
C9_UnknownPlaceholdersUnchanged ==
    Called("rtf") =>
        \A token \in Unknown(t_query, t_params.items) :
            TokenCount(t_out, token) >= TokenCount(t_query, token)

\* The text is the rendering of the value that its type calls for: a quoted
\* literal for a str, the decimal numeral for an int, the quoted comma-joined
\* items for a list.
TypeAware(text, value) ==
    IF value.type = "str"
    THEN Len(text) >= 2 /\ StartsAt(text, "\"", 1) /\ StartsAt(text, "\"", Len(text))
    ELSE IF value.type = "int"
         THEN IsInt(text) /\ int(text) = value.n /\ Strip(text) = text
         ELSE text = "\"" \o Join(value.items, ",") \o "\""

\* execute_cypher was called with the one-entry mapping {key: value} on the
\* template that is the placeholder of key.
SinglePlaceholder ==
    /\ Len(t_params.items) = 1
    /\ t_query = "$" \o t_params.items[1][1]

\* C10: both importers render a value by its type: a str as a quoted literal,
\* a number as its bare numeral, a list as one quoted comma-joined string.
C10_TypeAwareRendering ==
    LET key   == t_params.items[1][1]
        value == t_params.items[1][2]
        head  == "CYPHER " \o key \o "="
    IN  /\ (Called("rtf") /\ SinglePlaceholder) => TypeAware(t_out, value)
        /\ (Called("csv") /\ SinglePlaceholder) =>
               /\ StartsAt(t_out, head, 1)
               /\ TypeAware(SubSeq(t_out, Len(head) + 1, Len(t_out) - Len(t_query) - 1), value)

(***************************************************************************)
(* run_import with the business segments read from the text of their file  *)
(***************************************************************************)
MaxLines == 1

Header == "segment_id,segment_name,description,version,node_type"
HeaderWithoutNodeType == "segment_id,segment_name,description,version"

\* data lines: plain, with a backslash, with braces, one field short, with
\* blanks around it, one field long
DataLines ==
    { "SEG1,Product Management,PM workflows,2.0,BUSINESS_SEGMENT",
      "SEG2,a\\b,d,2.0,BS",
      "SEG3,{x},d,2.0,BS",
      "SEG4,n,d,2.0",
      " SEG5,n,d,2.0,BS ",
      "SEG6,n,d,2.0,BS,extra" }

\* a delimited payload: a header line, then up to MaxLines data lines
Payloads ==
    {Join(<<h>> \o d, "\n") : h \in {Header, HeaderWithoutNodeType},
                              d \in SeqsUpTo(DataLines, MaxLines)}

\* the rich-text container's escaping of a payload: backslashes and braces
\* escaped, every line break written as a backslash before the newline
Escaped(text) ==
    StrReplace(StrReplace(StrReplace(StrReplace(text, "\\", "\\\\"),
        "{", "\\{"), "}", "\\}"), "\n", "\\\n")

\* the container of a payload: the escaped run after the marker, closed by a
\* brace
Wrap(text) == "{\\rtf1\\ansi\\cf2 " \o Marker \o Escaped(text) \o "}"

\* a container that holds the payload outside any marked run
Unmarked(text) == "{\\rtf1\\ansi\\cf2 " \o Escaped(text) \o "}"

\* the payload of a second run
LaterPayload == "zz_id,zz_name\nzz1,zz2"

\* a container with two marked runs
TwoRuns(text) ==
    "{\\rtf1\\ansi{\\cf2 " \o Marker \o Escaped(text) \o "}{\\cf3 "
        \o Marker \o Escaped(LaterPayload) \o "}}"

\* a container with two marked runs, the first of them empty
EmptyFirstRun ==
    "{\\rtf1\\ansi{\\cf2 " \o Marker \o "}{\\cf3 " \o Marker \o Escaped(LaterPayload) \o "}}"

\* texts that are no well-formed container of a payload
OtherDocuments ==
    { "", Marker, Marker \o "}", Marker \o "}a\\ b }", Marker \o " \\ \\{ x \\} \\  }y",
      "{" \o Marker \o "a,b\\\\\n\\\\\n 1,2 ", EmptyFirstRun }

\* the files an importer may be given for a payload
Documents(v, text) ==
    IF v = "csv" THEN {text}
    ELSE {Wrap(text), Unmarked(text), TwoRuns(text)}

\* the value execute_cypher is given for row[name]
ParamOf(value) ==
    IF value.none THEN [type |-> "none", s |-> "None", n |-> 0, items |-> <<>>]
    ELSE StrVal(value.s)

\* the params dict import_business_segments builds from a row
segment_params(r) ==
    LET fs == Fields("business_segments")
    IN  Params([i \in 1..(Len(fs) + 1) |->
                  IF i = Len(fs) + 1 THEN <<"created_at", StrVal(Now)>>
                  ELSE <<fs[i], ParamOf(Get(r, fs[i]))>>])

SInit ==
    /\ variant \in {"csv", "rtf"}
    /\ \/ /\ payload \in Payloads
          /\ document \in Documents(variant, payload)
       \/ /\ payload = ""
          /\ variant = "rtf"
          /\ document \in OtherDocuments
    /\ csv_lines = <<>>
    /\ reader = <<>>
    /\ source = [t \in TableSet |->
                   IF t = "task_templates" THEN Prefix(MaxNodeRows) ELSE <<>>]
    /\ pc = "open_business_segments"
    /\ row = 1
    /\ stats = InitStats
    /\ submitted = <<>>
    /\ graph = EmptyGraph
    /\ raised = "none"
    /\ t_query = "" /\ t_params = NoParams /\ t_impl = "none" /\ t_out = ""
    /\ kq_method = "none" /\ kq_arg = "" /\ kq_sent = "" /\ kq_calls = 0
    /\ kq_reply = [fails |-> FALSE, result |-> <<>>] /\ kq_returned = <<>>

\* RTF importer: csv_lines = self.extract_csv_from_rtf(rtf_path); return if
\* there are none, else csv_reader = csv.DictReader(csv_lines)
OpenRTF ==
    /\ pc = "open_business_segments" /\ variant = "rtf" /\ raised = "none"
    /\ csv_lines' = extract_csv_from_rtf(document)
    /\ IF csv_lines' = <<>>
       THEN /\ pc' = NextStep(variant, "business_segments")
            /\ reader' = reader
       ELSE /\ pc' = "read_business_segments"
            /\ reader' = DictReader(csv_lines')
    /\ UNCHANGED <<variant, source, row, stats, submitted, graph, raised, tvars,
                   payload, document, qvars>>

\* CSV importer: reader = csv.DictReader(csvfile)
OpenCSV ==
    /\ pc = "open_business_segments" /\ variant = "csv" /\ raised = "none"
    /\ reader' = DictReader(FileLines(document))
    /\ pc' = "read_business_segments"
    /\ UNCHANGED <<variant, source, row, stats, submitted, graph, raised, tvars,
                   payload, document, csv_lines, qvars>>

\* one iteration of `for row in reader` of import_business_segments, or its
\* return when the reader is exhausted
ImportSegment ==
    /\ pc = "read_business_segments" /\ raised = "none"
    /\ \/ /\ row <= Len(reader)
          /\ LET r == reader[row]
                 t == "business_segments"
             IN  IF variant = "csv" /\ r.rest # <<>>
                 THEN /\ raised' = "AttributeError"
                      /\ UNCHANGED <<pc, row, stats, submitted, graph>>
                 ELSE IF \E i \in 1..Len(Fields(t)) : ~HasKey(r, Fields(t)[i])
                 THEN /\ raised' = "KeyError"
                      /\ UNCHANGED <<pc, row, stats, submitted, graph>>
                 ELSE LET q == query(variant, t)
                          text == query_with_params(variant, q, segment_params(r))
                      IN  \E outcome \in Outcomes :
                            /\ submitted' = Append(submitted, Command(t, row, text, outcome))
                            /\ graph' = IF outcome = "ok"
                                        THEN CreateNode(graph, t,
                                               [segment_id |-> PyStr(ParamOf(Get(r, "segment_id")))])
                                        ELSE graph
                            /\ stats' = counted(execute_cypher(stats, variant, q, text, outcome),
                                                t, outcome)
                            /\ row' = row + 1
                            /\ UNCHANGED <<pc, raised>>
       \/ /\ row > Len(reader)
          /\ pc' = NextStep(variant, "business_segments")
          /\ row' = 1
          /\ UNCHANGED <<stats, submitted, graph, raised>>
    /\ UNCHANGED <<variant, source, tvars, svars, qvars>>

SNext ==
    \/ OpenRTF
    \/ OpenCSV
    \/ ImportSegment
    \/ import_task_templates
    \/ import_workflow_templates
    \/ import_task_workflow_relationships
    \/ import_task_dependencies
    \/ create_indexes
    \/ verify_import
    \/ test_autogen_queries

SourceSpec == SInit /\ [][SNext]_vars

(***************************************************************************)
(* KnowledgeGraphQuery: the query layer of query_knowledge_graph.py         *)
(***************************************************************************)
MaxCalls == 2

\* the query text each method builds (f-strings of lines 46-109)
get_all_roles_text ==
    "MATCH (tt:TASK_TEMPLATE) RETURN DISTINCT tt.role ORDER BY tt.role"

get_tasks_by_role_text(role) ==
    "\n" \o
    "        MATCH (tt:TASK_TEMPLATE {role: '" \o role \o "'})\n" \o
    "        RETURN tt.node_id, tt.workflow_name, tt.characteristic, tt.prompt_flexibility\n" \o
    "        ORDER BY tt.workflow_name\n" \o
    "        "

get_workflow_details_text(workflow_id) ==
    "\n" \o
    "        MATCH (wt:WORKFLOW_TEMPLATE {workflow_id: '" \o workflow_id \o "'})\n" \o
    "        RETURN wt.workflow_name, wt.description, wt.business_value, \n" \o
    "               wt.total_tasks, wt.involved_roles, wt.complexity_level\n" \o
    "        "

get_workflow_tasks_text(workflow_id) ==
    "\n" \o
    "        MATCH (tt:TASK_TEMPLATE)-[u:USED_IN]->(wt:WORKFLOW_TEMPLATE {workflow_id: '" \o workflow_id \o "'})\n" \o
    "        RETURN tt.role, tt.workflow_name, tt.characteristic, \n" \o
    "               u.sequence_position, u.priority_score\n" \o
    "        ORDER BY u.sequence_position, u.priority_score\n" \o
    "        "

get_task_dependencies_text(task_id) ==
    "\n" \o
    "        MATCH (t1:TASK_TEMPLATE {node_id: '" \o task_id \o "'})-[d:DEPENDS_ON]->(t2:TASK_TEMPLATE)\n" \o
    "        RETURN t2.node_id, t2.role, t2.workflow_name, \n" \o
    "               d.dependency_type, d.workflow_context\n" \o
    "        ORDER BY d.priority_score\n" \o
    "        "

find_workflows_by_complexity_text(complexity) ==
    "\n" \o
    "        MATCH (wt:WORKFLOW_TEMPLATE {complexity_level: '" \o complexity \o "'})\n" \o
    "        RETURN wt.workflow_id, wt.workflow_name, wt.total_tasks, wt.involved_roles\n" \o
    "        ORDER BY wt.workflow_name\n" \o
    "        "

get_role_collaboration_map_text ==
    "\n" \o
    "        MATCH (wt:WORKFLOW_TEMPLATE)\n" \o
    "        RETURN wt.workflow_name, wt.involved_roles, wt.complexity_level\n" \o
    "        ORDER BY wt.complexity_level, wt.workflow_name\n" \o
    "        "

search_tasks_by_keyword_text(keyword) ==
    "\n" \o
    "        MATCH (tt:TASK_TEMPLATE)\n" \o
    "        WHERE tt.workflow_name CONTAINS '" \o keyword \o "' \n" \o
    "           OR tt.characteristic CONTAINS '" \o keyword \o "'\n" \o
    "           OR tt.keywords_phrases CONTAINS '" \o keyword \o "'\n" \o
    "        RETURN tt.role, tt.workflow_name, tt.characteristic, tt.keywords_phrases\n" \o
    "        ORDER BY tt.role, tt.workflow_name\n" \o
    "        "

\* arguments a caller may pass: plain names, a name with a quote, a text
\* that closes the literal and goes on, a trailing backslash, an escaped
\* quote
Arguments ==
    { "PRODM", "LAUNCH_001", "High", "plan", "O'Brien",
      "PRODM'}) DETACH DELETE tt //", "a\\", "it\\'s" }

\* texts a caller may pass to query()
CypherTexts ==
    { "MATCH (n) RETURN count(n)",
      "MATCH (n) WHERE n.role = 'SET CREATE' RETURN n",
      "CREATE (n:TASK_TEMPLATE {node_id: 'T9'})",
      "MATCH (n) DETACH DELETE n" }

QInit ==
    /\ variant = "csv"
    /\ source = [t \in TableSet |-> <<>>]
    /\ pc = "done"
    /\ row = 1
    /\ stats = InitStats
    /\ submitted = <<>>
    /\ graph = EmptyGraph
    /\ raised = "none"
    /\ t_query = "" /\ t_params = NoParams /\ t_impl = "none" /\ t_out = ""
    /\ payload = "" /\ document = "" /\ csv_lines = <<>> /\ reader = <<>>
    /\ kq_method = "none" /\ kq_arg = "" /\ kq_sent = "" /\ kq_calls = 0
    /\ kq_reply = [fails |-> FALSE, result |-> <<>>] /\ kq_returned = <<>>

\* what execute_command may do: raise, or return a result of no element, of
\* one (the statistics of a query without RETURN), or of headers, rows and
\* statistics; rows as long as the headers, shorter, longer; headers that
\* differ or repeat a name (RETURN a.x, a.x)
Replies ==
    { [fails |-> TRUE, result |-> <<>>],
      [fails |-> FALSE, result |-> <<>>],
      [fails |-> FALSE, result |-> << <<"Nodes created: 1">> >>],
      [fails |-> FALSE, result |-> << <<"a", "b">>, <<>> >>],
      [fails |-> FALSE, result |-> << <<"a", "b">>, << <<"1", "2">>, <<"3", "4">> >>,
                                      <<"Cached execution: 0">> >>],
      [fails |-> FALSE, result |-> << <<"a", "b">>, << <<"1">>, <<"3", "4", "5">> >> >>],
      [fails |-> FALSE, result |-> << <<"a", "a">>, << <<"1", "2">> >> >>] }

\* row_dict[key] = value on a dict kept as its items in insertion order
SetItem(d, key, value) ==
    IF \E j \in 1..Len(d) : d[j][1] = key
    THEN [j \in 1..Len(d) |-> IF d[j][1] = key THEN <<key, value>> ELSE d[j]]
    ELSE Append(d, <<key, value>>)

\* row_dict after the first n headers: for i, header in enumerate(headers):
\* if i < len(row): row_dict[header] = row[i]
RECURSIVE row_dict(_, _, _)
row_dict(headers, r, n) ==
    IF n = 0 THEN <<>>
    ELSE LET d == row_dict(headers, r, n - 1)
         IN  IF n <= Len(r) THEN SetItem(d, headers[n], r[n]) ELSE d

\* formatted_results for headers = result[0], rows = result[1]
formatted_results(result) ==
    [k \in 1..Len(result[2]) |-> row_dict(result[1], result[2][k], Len(result[1]))]

\* what query() returns: the whole body is inside try, and except returns []
query_result(reply) ==
    IF reply.fails THEN <<>>
    ELSE IF Len(reply.result) < 2 THEN <<>>
    ELSE formatted_results(reply.result)

\* self.query(text): the text goes to the store as it is, with GRAPH.QUERY,
\* and the answer is formatted
Call(method, arg, text) ==
    /\ kq_calls < MaxCalls
    /\ kq_method' = method
    /\ kq_arg' = arg
    /\ kq_sent' = text
    /\ kq_calls' = kq_calls + 1
    /\ \E reply \in Replies :
          /\ kq_reply' = reply
          /\ kq_returned' = query_result(reply)
    /\ UNCHANGED <<rvars, tvars, svars>>

KnowledgeGraphQuery_query ==
    \E cypher_query \in CypherTexts : Call("query", cypher_query, cypher_query)

get_all_roles == Call("get_all_roles", "", get_all_roles_text)

get_tasks_by_role ==
    \E role \in Arguments : Call("get_tasks_by_role", role, get_tasks_by_role_text(role))

get_workflow_details ==
    \E workflow_id \in Arguments :
        Call("get_workflow_details", workflow_id, get_workflow_details_text(workflow_id))

get_workflow_tasks ==
    \E workflow_id \in Arguments :
        Call("get_workflow_tasks", workflow_id, get_workflow_tasks_text(workflow_id))

get_task_dependencies ==
    \E task_id \in Arguments :
        Call("get_task_dependencies", task_id, get_task_dependencies_text(task_id))

find_workflows_by_complexity ==
    \E complexity \in Arguments :
        Call("find_workflows_by_complexity", complexity,
             find_workflows_by_complexity_text(complexity))

get_role_collaboration_map ==
    Call("get_role_collaboration_map", "", get_role_collaboration_map_text)

search_tasks_by_keyword ==
    \E keyword \in Arguments :
        Call("search_tasks_by_keyword", keyword, search_tasks_by_keyword_text(keyword))

QNext ==
    \/ KnowledgeGraphQuery_query
    \/ get_all_roles
    \/ get_tasks_by_role
    \/ get_workflow_details
    \/ get_workflow_tasks
    \/ get_task_dependencies
    \/ find_workflows_by_complexity
    \/ get_role_collaboration_map
    \/ search_tasks_by_keyword

QuerySpec == QInit /\ [][QNext]_vars

(***************************************************************************)
(* Properties of the query layer                                            *)
(***************************************************************************)
\* the first quote character of text from position i on (0: none)
NextQuote(text, i) ==
    LET a == Find(text, "'", i)
        b == Find(text, "\"", i)
    IN  IF a = 0 THEN b ELSE IF b = 0 THEN a ELSE IF a < b THEN a ELSE b

\* the quote that closes the literal whose content begins at i: the first
\* one that no backslash escapes (0: the literal is not closed)
RECURSIVE CloseQuote(_, _, _)
CloseQuote(text, quote, i) ==
    LET j == Find(text, quote, i)
        b == Find(text, "\\", i)
    IN  IF j = 0 THEN 0
        ELSE IF b # 0 /\ b < j THEN CloseQuote(text, quote, b + 2)
        ELSE j

\* the query without the content of its string literals: what the store
\* reads as clauses, names and punctuation
RECURSIVE SkeletonFrom(_, _)
SkeletonFrom(text, i) ==
    LET q == NextQuote(text, i)
        c == IF q = 0 THEN 0 ELSE CloseQuote(text, SubSeq(text, q, q), q + 1)
    IN  IF q = 0 THEN SubSeq(text, i, Len(text))
        ELSE IF c = 0 THEN SubSeq(text, i, q)
        ELSE SubSeq(text, i, q) \o SubSeq(text, c, c) \o SkeletonFrom(text, c + 1)

Skeleton(text) == SkeletonFrom(text, 1)

\* the query holds a clause that changes the graph
Writes(text) ==
    \E w \in {"CREATE", "MERGE", "DELETE", "SET ", "REMOVE"} : Find(Skeleton(text), w, 1) # 0

\* the text a method builds for an argument (for a method without one, the
\* text it sent)
TextOf(method, arg) ==
    CASE method = "get_tasks_by_role" -> get_tasks_by_role_text(arg)
      [] method = "get_workflow_details" -> get_workflow_details_text(arg)
      [] method = "get_workflow_tasks" -> get_workflow_tasks_text(arg)
      [] method = "get_task_dependencies" -> get_task_dependencies_text(arg)
      [] method = "find_workflows_by_complexity" -> find_workflows_by_complexity_text(arg)
      [] method = "search_tasks_by_keyword" -> search_tasks_by_keyword_text(arg)
      [] OTHER -> kq_sent

\* the argument stayed inside its literal: outside the literals the text
\* sent is the text of the method
StaysQuoted == Skeleton(kq_sent) = Skeleton(TextOf(kq_method, ""))

\* C19: whatever method is called with whatever argument, the text sent to
\* the store holds no clause that changes the graph, and the argument adds
\* nothing outside its quoted literal
C19_QueryLayerReadOnly ==
    kq_method # "none" => ~Writes(kq_sent) /\ StaysQuoted

\* the part of C19 that holds: the methods without a free text, called with
\* an argument in which no quote and no backslash occurs (or only quotes
\* that a backslash escapes), send a reading query with the argument inside
\* its literal
C19_PlainArgumentsStayQuoted ==
    (/\ kq_method \notin {"none", "query"}
     /\ Find(StrReplace(kq_arg, "\\'", ""), "'", 1) = 0
     /\ Find(StrReplace(kq_arg, "\\'", ""), "\\", 1) = 0)
        => ~Writes(kq_sent) /\ StaysQuoted

(***************************************************************************)
(* Properties of reading a table                                            *)
(***************************************************************************)
\* the file has been read
Opened == pc # "open_business_segments"

\* the rows the importer iterates over
RowsRead == IF variant = "rtf" /\ csv_lines = <<>> THEN <<>> ELSE reader

\* C11: round trip: the rows the RTF importer reads from the container of a
\* payload are the rows that dictionary-row parsing makes of the payload
\* itself, in the same order.
C11_RoundTrip ==
    (Opened /\ variant = "rtf" /\ document = Wrap(payload))
        => RowsRead = DictReader(FileLines(payload))
\* the attributes the graph holds as integers
IntegerTyped(t) ==
    CASE t = "workflow_templates" -> {"total_tasks"}
      [] t = "used_in_relationships" -> {"sequence_position", "priority_score"}
      [] t = "depends_on_relationships" -> {"priority_score"}
      [] OTHER -> {}

\* the row of its table a mutation was sent for
RowOf(c) == Catalogue(c.step)[source[c.step][c.row]]

\* C12: a row in which total_tasks, sequence_position or priority_score is
\* not a number fails: every mutation sent (and so every row counted) is of
\* a row whose integer-typed attributes all parse as integers
C12_NonNumericRowFails ==
    \A i \in 1..Len(submitted) :
        submitted[i].step \in TableSet
            => \A f \in IntegerTyped(submitted[i].step) : IsInt(RowOf(submitted[i])[f])

\* the other two integer attributes do fail their row: nothing is sent for
\* a row whose total_tasks or priority_score is not a number
C12_ParsedAttributesFail ==
    \A i \in 1..Len(submitted) :
        submitted[i].step \in TableSet
            => \A f \in IntFields(submitted[i].step) : IsInt(RowOf(submitted[i])[f])
\* the RTF source of the business segments holds no marker
NoMarker == variant = "rtf" /\ Find(document, Marker, 1) = 0

\* C13: a source without a marker is a table without data and not an error:
\* extract_csv_from_rtf returns the empty sequence, the import returns at
\* once to run_import, which goes on with the next table, and at no time
\* has the import counted a row, sent a mutation or added an error entry
\* (the entries of stats['errors'] are those of failed commands of the
\* later steps) or raised anything
C13_NoMarkerIsNoData ==
    /\ [](NoMarker /\ Opened =>
            /\ csv_lines = <<>>
            /\ pc # "read_business_segments"
            /\ stats["business_segments"] = 0
            /\ Sent("business_segments") = <<>>
            /\ Len(stats.errors) = Failures
            /\ raised = "none")
    /\ [][NoMarker /\ ~Opened =>
            /\ pc' = "task_templates" /\ row' = 1
            /\ stats' = InitStats /\ submitted' = <<>> /\ raised' = "none"]_vars

\* a run on a source without a marker that got through the remaining table,
\* the index statements and the verification queries
C13_Witness ==
    /\ NoMarker /\ document # ""
    /\ Len(Sent("task_templates")) = MaxNodeRows
    /\ Len(Sent("create_indexes")) = Len(indexes("rtf"))
    /\ Len(Sent("verify_import")) = Len(verify_queries("rtf"))
    /\ pc = "done"
\* a field import_business_segments refers to is absent from row r: its
\* column is not in the header, or the row ends before it
Absent(r) ==
    \E i \in 1..Len(Fields("business_segments")) :
        \/ ~HasKey(r, Fields("business_segments")[i])
        \/ Get(r, Fields("business_segments")[i]).none

\* C14: a row from which a referenced field is absent raises out of the
\* import: no mutation is ever sent for such a row
C14_AbsentFieldRaises ==
    \A i \in 1..Len(Sent("business_segments")) :
        ~Absent(reader[Sent("business_segments")[i].row])

\* the part of C14 that holds: a column missing from the header raises
\* KeyError out of the import at the first row, nothing sent, nothing
\* counted, no error entry
C14_MissingColumnRaises ==
    [][(pc = "read_business_segments" /\ row <= Len(reader)
          /\ ~HasKey(reader[row], "node_type")
          /\ ~(variant = "csv" /\ reader[row].rest # <<>>))
        => (raised' = "KeyError" /\ UNCHANGED <<stats, submitted, graph>>)]_vars
(***************************************************************************)
(* Properties of create_indexes and verify_import                           *)
(***************************************************************************)
\* run_import is past step p (whether or not something was raised later)
Past(p) == StepIndex(variant, pc) > StepIndex(variant, p)

\* C15: the index statements are sent after the five loads, each once and
\* in list order (what create_indexes has sent is a prefix of its list that
\* follows the mutations directly, and the whole list once it has
\* returned); a failing statement raises nothing and the later statements
\* are still sent
C15_IndexProvisioning ==
    LET sent == Sent("create_indexes")
    IN  /\ Len(sent) <= Len(indexes(variant))
        /\ \A i \in 1..Len(sent) :
              /\ sent[i].row = i
              /\ sent[i].query = query_with_params(variant, indexes(variant)[i], NoParams)
              /\ submitted[Len(Mutations) + i] = sent[i]
        /\ sent # <<>> => \A t \in TableSet : Len(Sent(t)) = Len(source[t])
        /\ pc = "create_indexes" => raised = "none" /\ row = Len(sent) + 1
        /\ Past("create_indexes") => Len(sent) = Len(indexes(variant))

\* create_indexes has returned although one of its statements, not the
\* last one, failed, after loads that sent mutations
C15_Witness ==
    /\ Past("create_indexes")
    /\ Mutations # <<>>
    /\ \E k \in 1..(Len(indexes(variant)) - 1) :
          Sent("create_indexes")[k].outcome = "fail"
VerifySteps == {"verify_import", "test_autogen_queries"}

\* the verification queries sent so far
Verifications == SelectSeq(submitted, LAMBDA c : c.step \in VerifySteps)

\* a query that only reads: MATCH ... RETURN without a writing clause
ReadOnly(q) ==
    /\ Take(LStrip(q), 5) = "MATCH"
    /\ Find(q, "RETURN", 1) # 0
    /\ \A w \in {"CREATE", "MERGE", "SET ", "DELETE", "REMOVE"} : Find(q, w, 1) = 0

\* the part of C16 that holds of both importers: verification comes after
\* the index statements, sends only reading queries, none of them twice,
\* and leaves the five counters as the loads left them
C16_ReadOnlyNoRetry ==
    /\ \A i \in 1..Len(Verifications) :
          /\ ReadOnly(Verifications[i].query)
          /\ \A j \in 1..Len(Verifications) :
                (Verifications[j].step = Verifications[i].step
                 /\ Verifications[j].row = Verifications[i].row) => j = i
    /\ Verifications # <<>> =>
          /\ Len(Sent("create_indexes")) = Len(indexes(variant))
          /\ \A t \in TableSet : stats[t] = Len(Sent(t))

\* C16: verification is read-only and never retried, and a verification
\* query that fails raises nothing out of run_import
C16_VerificationReadOnly ==
    /\ C16_ReadOnlyNoRetry
    /\ pc \in VerifySteps => raised = "none"
(***************************************************************************)
(* Properties of extract_csv_from_rtf                                       *)
(***************************************************************************)
\* where the first marker of a content ends, and the first closing brace
\* from there on (0: none)
FirstStart(content) ==
    IF Find(content, Marker, 1) = 0 THEN 0 ELSE Find(content, Marker, 1) + Len(Marker)
FirstClose(content) ==
    IF FirstStart(content) = 0 THEN 0 ELSE Find(content, "}", FirstStart(content))

\* the first run: the content between the first marker and the first closing
\* brace after it
FirstRun(content) == SubSeq(content, FirstStart(content), FirstClose(content) - 1)

\* the content holds two marked runs or more: after the closing brace of the
\* first run comes another marker and, later, a closing brace
TwoRunsOrMore(content) ==
    /\ FirstClose(content) # 0
    /\ LET p == Find(content, Marker, FirstClose(content) + 1)
       IN  p # 0 /\ Find(content, "}", p + Len(Marker)) # 0

\* no line holds text of the later run of the documents of the model
NothingOfLaterRun(lines) == \A i \in 1..Len(lines) : Find(lines[i], "zz", 1) = 0

\* C17: of a document with two or more marked runs only the first is used:
\* the lines returned are those of the content up to the first closing brace
\* after the first marker, and nothing of a later run is among them
C17_FirstRunOnly ==
    (variant = "rtf" /\ Opened /\ TwoRunsOrMore(document))
        => /\ csv_lines = lines_of(csv_content(FirstRun(document)))
           /\ NothingOfLaterRun(csv_lines)

\* the part of C17 that holds: when the first run is not empty
C17_NonEmptyFirstRunOnly ==
    (variant = "rtf" /\ Opened /\ TwoRunsOrMore(document) /\ FirstRun(document) # "")
        => /\ csv_lines = lines_of(csv_content(FirstRun(document)))
           /\ NothingOfLaterRun(csv_lines)
\* s without its blanks and line breaks
Squeeze(s) == StrReplace(StrReplace(s, " ", ""), "\n", "")

\* s without its backslashes and braces
Bare(s) == StrReplace(StrReplace(StrReplace(s, "\\", ""), "{", ""), "}", "")

\* lines are what a content yields: no line is empty, begins or ends with
\* whitespace, or holds a line break, a backslash or a brace; there is none
\* when nothing is captured, and apart from whitespace the lines together
\* hold the captured content less its backslashes and braces
ReturnedFrom(lines, content) ==
    /\ \A i \in 1..Len(lines) :
          /\ lines[i] # ""
          /\ Strip(lines[i]) = lines[i]
          /\ \A c \in {"\n", "\\", "{", "}"} : Find(lines[i], c, 1) = 0
    /\ matches(content) = <<>> => lines = <<>>
    /\ matches(content) # <<>> =>
          Squeeze(Join(lines, "")) = Squeeze(Bare(matches(content)[1]))

\* C18: whatever the text of the file, the lines extract_csv_from_rtf
\* returns are the captured content, backslashes made line breaks and
\* braces removed, cut into trimmed lines without the blank ones
C18_ReturnedLines ==
    [][(variant = "rtf" /\ ~Opened) => ReturnedFrom(csv_lines', document)]_vars

\* lines were recovered from a captured content that holds a brace and a
\* backslash before a line break (a blank line once it is rewritten)
C18_Witness ==
    /\ variant = "rtf" /\ Opened /\ Len(csv_lines) >= 2
    /\ matches(document) # <<>>
    /\ \A c \in {"{", "\\\n"} : Find(matches(document)[1], c, 1) # 0
(***************************************************************************)
(* Properties of execute_cypher within a run                                *)
(***************************************************************************)
\* the command was sent by execute_cypher (the CSV importer's verify_import
\* calls the client itself)
ThroughExecuteCypher(c) == ~(variant = "csv" /\ c.step = "verify_import")

\* the calls of execute_cypher that failed so far
FailedCalls ==
    Cardinality({i \in 1..Len(submitted) :
                   submitted[i].outcome = "fail" /\ ThroughExecuteCypher(submitted[i])})

C21_OwnCounterOnly ==
    [][/\ \A t \in TableSet :
             stats'[t] # stats[t] =>
                 /\ pc = t
                 /\ stats'[t] = stats[t] + 1
                 /\ \A u \in TableSet \ {t} : stats'[u] = stats[u]
       /\ pc \notin TableSet => \A t \in TableSet : stats'[t] = stats[t]]_vars

\* a run that counted rows of every table and then sent all index statements
C21_Witness ==
    /\ \A t \in TableSet : stats[t] >= 1
    /\ stats["used_in_relationships"] >= 2
    /\ Len(Sent("create_indexes")) = Len(indexes(variant))
(***************************************************************************)
(* The two importers on the same rows                                       *)
(***************************************************************************)
\* the first row of the reader that lacks a column import_business_segments
\* refers to (one past the last row when there is none)
FirstMissing(rows) ==
    LET bad == {k \in 1..Len(rows) :
                  \E i \in 1..Len(Fields("business_segments")) :
                      ~HasKey(rows[k], Fields("business_segments")[i])}
    IN  IF bad = {} THEN Len(rows) + 1 ELSE CHOOSE k \in bad : \A m \in bad : k <= m

\* the load of the business segments is over: it returned or it raised
SegmentsLoadEnded ==
    \/ pc = "read_business_segments" /\ raised # "none"
    \/ pc \notin {"open_business_segments", "read_business_segments"}

\* what the load of the business segments has sent and counted is what the
\* rows it read and the outcomes of its commands determine, whichever
\* importer runs: one mutation, counted, for every row up to the first that
\* lacks a column, one error entry for every failed command
SegmentsLoadAsRowsDetermine ==
    /\ Len(Sent("business_segments")) = FirstMissing(reader) - 1
    /\ stats["business_segments"] = FirstMissing(reader) - 1
    /\ pc \in {"read_business_segments", "task_templates"} /\ Sent("task_templates") = <<>>
          => Len(stats.errors) = Failures

\* C22: the two importers agree on the loads: for the same rows and the
\* same outcomes of the collaborator they send the same number of mutations
\* and end with the same counters and the same number of error entries
C22_VariantsAgree == SegmentsLoadEnded => SegmentsLoadAsRowsDetermine

\* the part of C22 that holds: the importers agree on rows that have no
\* more fields than the header
C22_AgreeWithoutExtraFields ==
    (SegmentsLoadEnded /\ \A k \in 1..Len(reader) : reader[k].rest = <<>>)
        => SegmentsLoadAsRowsDetermine
(***************************************************************************)
(* Properties of KnowledgeGraphQuery.query                                  *)
(***************************************************************************)
\* the mapping holds the key / the value it holds for it
InDict(d, key) == \E j \in 1..Len(d) : d[j][1] = key
Lookup(d, key) == d[CHOOSE j \in 1..Len(d) : d[j][1] = key][2]

\* the mapping returned for a row is the row under the headers: header i
\* maps to the i-th value of the row, a header beyond the row is no key
RowUnderHeaders(d, headers, r) ==
    \A i \in 1..Len(headers) :
        IF i <= Len(r) THEN InDict(d, headers[i]) /\ Lookup(d, headers[i]) = r[i]
        ELSE ~InDict(d, headers[i])

\* what C23 says query() returns for a reply
AsClaimed(reply, returned) ==
    IF reply.fails \/ Len(reply.result) < 2 THEN returned = <<>>
    ELSE /\ Len(returned) = Len(reply.result[2])
         /\ \A k \in 1..Len(returned) :
               RowUnderHeaders(returned[k], reply.result[1], reply.result[2][k])

\* C23: query() returns the empty list when the collaborator fails or
\* returns fewer than two elements, and otherwise one mapping per result
\* row, in result order, in which header i maps to the i-th value of the
\* row and the headers beyond the row are left out
C23_QueryResult == kq_method # "none" => AsClaimed(kq_reply, kq_returned)

\* the part of C23 that holds: when no header name occurs twice
C23_DistinctHeaders ==
    (/\ kq_method # "none"
     /\ (~kq_reply.fails /\ Len(kq_reply.result) >= 2) =>
            \A i, j \in 1..Len(kq_reply.result[1]) :
                kq_reply.result[1][i] = kq_reply.result[1][j] => i = j)
        => AsClaimed(kq_reply, kq_returned)
====
